---- MODULE Spec2Model ----
(***************************************************************************)
(* Model of the MoneyRequestModal wizard                                   *)
(* (src/src/pages/iou/MoneyRequestModal.js).                               *)
(*                                                                         *)
(* The component is a React function component.  A "render" is one commit  *)
(* of the component followed by its passive effects, run in source order:  *)
(* the mount effect (first commit only), the transaction-completion        *)
(* effect (when the props.iou object changed), the connectivity effect     *)
(* (when props.network.isOffline changed) and the bookkeeping effect       *)
(* (every commit).  Event handlers set state and are followed by such a    *)
(* commit with unchanged props.  Memoised values (steps, direction) are    *)
(* cells that are recomputed only when one of their listed dependencies    *)
(* changed.  Step indices are 0-based as in the source; TLA+ sequences are *)
(* 1-based, so steps[i] of the source is steps[i + 1] here.                *)
(***************************************************************************)
EXTENDS Integers, Sequences, FiniteSets, TLC

VARIABLES
    mounted,                               \* the first commit's effects have run
    iou,                                   \* props.iou as of the last commit
    isOffline,                             \* props.network.isOffline as of the last commit
    reportParticipants,                    \* props.report.participants as of the last commit
    prevCreatingIOUTransactionStatusRef,   \* useRef, line 128
    prevNetworkStatusRef,                  \* useRef, line 129
    previousStepIndex,                     \* useState, line 131
    currentStepIndex,                      \* useState, line 132
    participants,                          \* useState, line 133
    amount,                                \* useState, line 134
    steps,                                 \* useMemo cell, line 126
    direction,                             \* useMemo cell, line 177
    hasMultipleParticipants,               \* props.hasMultipleParticipants
    reportID,                              \* props.route.params.reportID, <<>> when absent
    comment,                               \* props.iou.comment
    fallingEdges,                          \* commits in which the in-flight flag fell
    completionActions,                     \* resets and dismissals done by the completion effect
    last                                   \* the last operation, the state it found, what its commit did

vars == <<mounted, iou, isOffline, reportParticipants,
          prevCreatingIOUTransactionStatusRef, prevNetworkStatusRef,
          previousStepIndex, currentStepIndex, participants, amount,
          steps, direction, hasMultipleParticipants, reportID, comment,
          fallingEdges, completionActions, last>>

-----------------------------------------------------------------------------
(* Bounds *)

\* the report has at most this many participant logins
MaxReportParticipants == 1

\* navigateToStep is tried with every index from -StepArgMargin to
\* (longest step sequence) + StepArgMargin
StepArgMargin == 1

\* at most this many falling edges of the in-flight flag are explored
MaxEdges == 2

-----------------------------------------------------------------------------
(* Inputs *)

Logins == <<"p1", "p2", "p3">>

\* the lists of logins a report can have: <<>>, <<"p1">>, <<"p1", "p2">>, ...
ReportParticipantLists ==
    { SubSeq(Logins, 1, n) : n \in 0..(IF MaxReportParticipants < Len(Logins)
                                       THEN MaxReportParticipants ELSE Len(Logins)) }

\* the values of the observed fields of the external draft record
IouValues == [creatingIOUTransaction : BOOLEAN, error : BOOLEAN]

\* what the amount step can hand over
AmountInputs == {<<"1", "2", ".", "3", "4", "5">>}

\* what the participants step can hand over
ParticipantSelections == {<<"p1", "p2">>}

\* props.route.params.reportID, <<>> when the route has none (line 319)
ReportIDs == {<<>>, <<"9", "9", "8", "8", "7", "7">>, <<"9", "a">>}

\* props.iou.comment: the store's draft record may not have the field
\* (defaultProps.iou, lines 93-97, has none)
NoComment == [defined |-> FALSE, text |-> <<>>]

Comments == {NoComment, [defined |-> TRUE, text |-> <<" ", "x", " ">>]}

\* what the confirm page can hand to onConfirm
SelectedParticipantLists == {<<>>, <<"p1", "p2">>}

-----------------------------------------------------------------------------
(* Pure parts of the component *)

Steps == [IOUAmount |-> "iou.amount",
          IOUParticipants |-> "iou.participants",
          IOUConfirm |-> "iou.confirm"]

\* _.indexOf: 0-based index of the first occurrence, -1 when absent
IndexOf(s, x) ==
    IF \E k \in 1..Len(s) : s[k] = x
    THEN (CHOOSE k \in 1..Len(s) : s[k] = x /\ \A j \in 1..(k - 1) : s[j] # x) - 1
    ELSE -1

\* a plausible slip: the participants step is skipped when there are NO participants
ComputeStepsInverted(rp) ==
    IF Len(rp) = 0
    THEN <<Steps.IOUAmount, Steps.IOUConfirm>>
    ELSE <<Steps.IOUAmount, Steps.IOUParticipants, Steps.IOUConfirm>>

\* the function memoised at line 126
ComputeSteps(rp) ==
    IF Len(rp) # 0
    THEN <<Steps.IOUAmount, Steps.IOUConfirm>>
    ELSE <<Steps.IOUAmount, Steps.IOUParticipants, Steps.IOUConfirm>>

StepArgs == (0 - StepArgMargin)..(Len(ComputeSteps(<<>>)) + StepArgMargin)

\* the function memoised at lines 177-200; st is the steps value it closed over
ComputeDirection(st, prev, cur) ==
    LET amountIndex == IndexOf(st, Steps.IOUAmount)
        confirmIndex == IndexOf(st, Steps.IOUConfirm)
    IN  IF prev = confirmIndex /\ cur = amountIndex THEN "in"
        ELSE IF prev = amountIndex /\ cur = confirmIndex THEN "out"
        ELSE IF prev < cur THEN "in"
        ELSE IF prev > cur THEN "out"
        ELSE "null"

\* steps[currentStepIndex], line 359
CurrentStep(st, cur) ==
    IF cur + 1 \in 1..Len(st) THEN st[cur + 1] ELSE "undefined"

-----------------------------------------------------------------------------
(* JavaScript numbers: IEEE-754 binary64 arithmetic on the non-negative    *)
(* values the amount can take.  A number is Zero or a record               *)
(* [m |-> <<a, b, c>>, e |-> exponent]: the 53-bit significand is          *)
(* M = a * Limb^2 + b * Limb + c, held in three limbs because the checker's *)
(* integers have 32 bits (2^16 <= a < 2^17, b and c below Limb = 2^18), and *)
(* the value is M * 2^(e - 52).  Every operation yields the representable  *)
(* number nearest to the exact result, ties to the even significand, as    *)
(* the language requires.  Amounts stay below 4096, so that no             *)
(* intermediate result leaves 32 bits.                                     *)

\* bits of the significand of a Number
SignificandBits == 53

Zero == [m |-> <<0, 0, 0>>, e |-> 0]

Digits == <<"0", "1", "2", "3", "4", "5", "6", "7", "8", "9">>

IsDigit(c) == \E i \in 1..Len(Digits) : Digits[i] = c

DigitValue(c) == (CHOOSE i \in 1..Len(Digits) : Digits[i] = c) - 1

RECURSIVE Pow(_, _)
Pow(b, k) == IF k = 0 THEN 1 ELSE b * Pow(b, k - 1)

Limb == Pow(2, 18)

\* the exponent e with 2^e <= n / d < 2^(e + 1), for n > 0
RECURSIVE FloorLog2(_, _)
FloorLog2(n, d) ==
    IF n >= 2 * d THEN FloorLog2(n, 2 * d) + 1
    ELSE IF n < d THEN FloorLog2(2 * n, d) - 1
    ELSE 0

\* the significand m, of exponent e, followed by a guard bit and by further
\* non-zero bits exactly if sticky: the nearest Number, ties to even
RoundToNearestEven(m, e, guard, sticky) ==
    LET up == guard = 1 /\ (sticky \/ m[3] % 2 = 1)
        c == IF up THEN m[3] + 1 ELSE m[3]
        b == m[2] + (c \div Limb)
        a == m[1] + (b \div Limb)
    IN  IF a < Limb \div 2
        THEN [m |-> <<a, b % Limb, c % Limb>>, e |-> e]
        ELSE [m |-> <<a \div 2, 0, 0>>, e |-> e + 1]

\* the Number nearest to the fraction n / d: the quotient is developed nine
\* bits at a time, 54 bits after the leading one
ToDouble(n, d) ==
    IF n = 0 THEN Zero
    ELSE LET e == FloorLog2(n, d)
             nn == IF e < 0 THEN n * Pow(2, 0 - e) ELSE n
             dd == IF e > 0 THEN d * Pow(2, e) ELSE d
             rem[j \in 0..6] == IF j = 0 THEN nn - dd ELSE (rem[j - 1] * 512) % dd
             q[j \in 1..6] == (rem[j - 1] * 512) \div dd
             m == << Pow(2, 16) + q[1] * 128 + (q[2] \div 4),
                     (q[2] % 4) * Pow(2, 16) + q[3] * 128 + (q[4] \div 4),
                     (q[4] % 4) * Pow(2, 16) + q[5] * 128 + (q[6] \div 4) >>
         IN  RoundToNearestEven(m, e, (q[6] \div 2) % 2, q[6] % 2 = 1 \/ rem[6] # 0)

\* ToNumber of a string holding a decimal numeral ("" is 0), the coercion
\* amount * 100 applies to the amount string (lines 274 and 351)
ToNumber(chars) ==
    LET dot == IF \E i \in 1..Len(chars) : chars[i] = "."
               THEN CHOOSE i \in 1..Len(chars) : chars[i] = "."
               ELSE Len(chars) + 1
        digits == SelectSeq(chars, IsDigit)
        value[i \in 0..Len(digits)] ==
            IF i = 0 THEN 0 ELSE 10 * value[i - 1] + DigitValue(digits[i])
        decimals == IF dot > Len(chars) THEN 0 ELSE Len(chars) - dot
    IN  ToDouble(value[Len(digits)], Pow(10, decimals))

\* x * 100 (lines 274 and 351): the exact product, of 59 or 60 bits, rounded
\* once to 53
Times100(x) ==
    IF x = Zero THEN Zero
    ELSE LET c == x.m[3] * 100
             b == x.m[2] * 100 + (c \div Limb)
             p2 == x.m[1] * 100 + (b \div Limb)
             p1 == b % Limb
             p0 == c % Limb
             s == IF p2 < Pow(2, 23) THEN 6 ELSE 7
             low == Pow(2, s)
             m == << p2 \div low,
                     (p2 % low) * (Limb \div low) + (p1 \div low),
                     (p1 % low) * (Limb \div low) + (p0 \div low) >>
         IN  RoundToNearestEven(m, x.e + s, (p0 \div (low \div 2)) % 2,
                                p0 % (low \div 2) # 0)

\* Math.round(x) for 0 <= x < 2^17: the nearest integer, halves towards
\* +infinity (the integer bits and the bit below them lie in the top limb)
MathRound(x) ==
    IF x = Zero THEN 0
    ELSE IF x.e < -1 THEN 0
    ELSE IF x.e = -1 THEN 1
    ELSE LET k == 16 - x.e
         IN  (x.m[1] \div Pow(2, k))
             + (IF k > 0 THEN (x.m[1] \div Pow(2, k - 1)) % 2 ELSE x.m[2] \div (Limb \div 2))

\* Math.round(amount * 100), lines 274 and 351
AmountInMinorUnits(amt) == MathRound(Times100(ToNumber(amt)))

\* String.prototype.trim on a string of characters (lines 276 and 320)
RECURSIVE Trim(_)
Trim(chars) ==
    IF chars = <<>> THEN <<>>
    ELSE IF Head(chars) = " " THEN Trim(Tail(chars))
    ELSE IF chars[Len(chars)] = " " THEN Trim(SubSeq(chars, 1, Len(chars) - 1))
    ELSE chars

-----------------------------------------------------------------------------
(* Navigation callbacks: each yields the pair                              *)
(* <<previousStepIndex, currentStepIndex>> it leaves behind                *)

\* a plausible slip: the upper guard written with >=
navigateToStepStrict(st, prev, cur, stepIndex) ==
    IF stepIndex < 0 \/ stepIndex >= Len(st) THEN <<prev, cur>>
    ELSE IF cur = stepIndex THEN <<prev, cur>>
    ELSE <<cur, stepIndex>>

navigateToStep(st, prev, cur, stepIndex) ==
    IF stepIndex < 0 \/ stepIndex > Len(st) THEN <<prev, cur>>
    ELSE IF cur = stepIndex THEN <<prev, cur>>
    ELSE <<cur, stepIndex>>

\* a plausible slip: setPreviousStepIndex(currentStepIndex) left out
navigateToPreviousStepKeepsPrevious(prev, cur) ==
    IF cur <= 0 THEN <<prev, cur>>
    ELSE <<prev, cur - 1>>

navigateToPreviousStep(prev, cur) ==
    IF cur <= 0 THEN <<prev, cur>>
    ELSE <<cur, cur - 1>>

\* shouldShowBackButton, line 361
shouldShowBackButton(cur) == cur > 0

\* a plausible slip: the last-index guard written with >
navigateToNextStepPastEnd(st, prev, cur) ==
    IF cur > Len(st) - 1 THEN <<prev, cur>>
    ELSE LET confirmIndex == IndexOf(st, Steps.IOUConfirm)
         IN  IF prev = confirmIndex
             THEN navigateToStep(st, prev, cur, confirmIndex)
             ELSE <<cur, cur + 1>>

\* a plausible slip: the step forward computed from previousStepIndex
navigateToNextStepFromPrevious(st, prev, cur) ==
    IF cur >= Len(st) - 1 THEN <<prev, cur>>
    ELSE LET confirmIndex == IndexOf(st, Steps.IOUConfirm)
         IN  IF prev = confirmIndex
             THEN navigateToStep(st, prev, cur, confirmIndex)
             ELSE <<cur, prev + 1>>

navigateToNextStep(st, prev, cur) ==
    IF cur >= Len(st) - 1 THEN <<prev, cur>>
    ELSE LET confirmIndex == IndexOf(st, Steps.IOUConfirm)
         IN  IF prev = confirmIndex
             THEN navigateToStep(st, prev, cur, confirmIndex)
             ELSE <<cur, cur + 1>>

-----------------------------------------------------------------------------
(* Submission callbacks: each yields [calls |-> the external actions it    *)
(* dispatched, with their arguments, thrown |-> whether it ended in a      *)
(* TypeError].  props.report, the currency code, the current user's login  *)
(* and the locale are handed on as they are and are left out.              *)

\* CONST.IOU.PAYMENT_TYPE: three distinct values
PaymentType == [ELSEWHERE |-> "Elsewhere", PAYPAL_ME |-> "PayPal.me", EXPENSIFY |-> "Expensify"]

\* the payment method types onSendMoney is tried with
PaymentMethodTypes ==
    {PaymentType.ELSEWHERE, PaymentType.PAYPAL_ME, PaymentType.EXPENSIFY, "ACH"}

\* CONST.REGEX.NUMBER.test: a non-empty string of digits
RegexNumberTest(chars) ==
    Len(chars) > 0 /\ \A i \in 1..Len(chars) : IsDigit(chars[i])

\* list[0]: undefined for an empty list
First(list) == IF Len(list) > 0 THEN list[1] ELSE "undefined"

Dispatch(call) == [calls |-> <<call>>, thrown |-> FALSE]

Nothing == [calls |-> <<>>, thrown |-> FALSE]

\* props.iou.comment.trim() on a record without the field
TypeError == [calls |-> <<>>, thrown |-> TRUE]

\* lines 273-313; reads the amount and participants cells and the draft
sendMoney(paymentMethodType) ==
    LET amountInDollars == AmountInMinorUnits(amount)
        call(name) == [action |-> name,
                       amount |-> amountInDollars,
                       comment |-> Trim(comment.text),
                       participant |-> First(participants)]
    IN  IF ~comment.defined THEN TypeError
        ELSE IF paymentMethodType = PaymentType.ELSEWHERE
        THEN Dispatch(call("sendMoneyElsewhere"))
        ELSE IF paymentMethodType = PaymentType.PAYPAL_ME
        THEN Dispatch(call("sendMoneyViaPaypal"))
        ELSE IF paymentMethodType = PaymentType.EXPENSIFY
        THEN Dispatch(call("sendMoneyWithWallet"))
        ELSE Nothing

\* lines 318-357; reads the amount cell, the route and the draft
createTransaction(selectedParticipants) ==
    IF ~comment.defined THEN TypeError
    ELSE IF hasMultipleParticipants /\ RegexNumberTest(reportID)
    THEN Dispatch([action |-> "splitBill",
                   participants |-> selectedParticipants,
                   amount |-> amount,
                   comment |-> Trim(comment.text),
                   reportID |-> reportID])
    ELSE IF hasMultipleParticipants
    THEN Dispatch([action |-> "splitBillAndOpenReport",
                   participants |-> selectedParticipants,
                   amount |-> amount,
                   comment |-> Trim(comment.text)])
    ELSE Dispatch([action |-> "requestMoney",
                   amount |-> AmountInMinorUnits(amount),
                   participant |-> First(selectedParticipants),
                   comment |-> Trim(comment.text)])

\* what the last operation read and did when it was no submission
NoSubmit == [selectedParticipants |-> <<>>, paymentMethodType |-> "",
             calls |-> <<>>, thrown |-> FALSE]

-----------------------------------------------------------------------------
(* Effects *)

\* a plausible slip: the effect forgets to test the current in-flight flag
TransactionCompletionEffectNoCurrentTest(prevCreating, nIou) ==
    IF ~prevCreating THEN "none"
    ELSE IF nIou.error = TRUE THEN "reset"
    ELSE "dismiss"

\* a plausible slip: the two outcomes are swapped
TransactionCompletionEffectSwapped(prevCreating, nIou) ==
    IF ~prevCreating \/ nIou.creatingIOUTransaction THEN "none"
    ELSE IF nIou.error = TRUE THEN "dismiss"
    ELSE "reset"

\* lines 143-155: "none" (early return), "reset" (setCurrentStepIndex(0)) or
\* "dismiss" (Navigation.dismissModal())
TransactionCompletionEffect(prevCreating, nIou) ==
    IF ~prevCreating \/ nIou.creatingIOUTransaction THEN "none"
    ELSE IF nIou.error = TRUE THEN "reset"
    ELSE "dismiss"

\* a plausible slip: the effect forgets to test the held-over network status
ConnectivityEffectNoPrevTest(prevOffline, nOffline) ==
    ~nOffline

\* lines 157-164: TRUE when PersonalDetails.openMoneyRequestModalPage() is called
ConnectivityEffect(prevOffline, nOffline) ==
    IF nOffline \/ ~prevOffline THEN FALSE ELSE TRUE

\* a plausible slip: the in-flight flag is not snapshotted
BookkeepingEffectNetworkOnly(nOffline, nIou) ==
    [network |-> nOffline, creating |-> prevCreatingIOUTransactionStatusRef]

\* lines 166-170: the values the two refs hold after the effect
BookkeepingEffect(nOffline, nIou) ==
    [network |-> nOffline, creating |-> nIou.creatingIOUTransaction]

\* a plausible slip: the reset made with navigateToStep(0), which also sets
\* previousStepIndex
ErrorResetViaNavigateToStep(sPrev, sCur) == <<sCur, 0>>

\* line 151, setCurrentStepIndex(0): the two indices after the reset
ErrorReset(sPrev, sCur) == <<sPrev, 0>>

\* a plausible slip: the sequence derived from the selected participants (the
\* state cell) instead of the report's
StepsMemoOnSelection(nRP, sParts) ==
    IF Len(sParts) # Len(participants) THEN ComputeSteps(sParts) ELSE steps

\* lines 108 and 126, useMemo(..., [reportParticipants.length]): the step
\* sequence of a render with report participants nRP and selected participants
\* sParts (which it does not read)
StepsMemo(nRP, sParts) ==
    IF Len(nRP) # Len(reportParticipants) THEN ComputeSteps(nRP) ELSE steps

-----------------------------------------------------------------------------
(* One commit of the component and its effects.                            *)
(*   isMount      the first commit (every effect runs)                     *)
(*   nIou, iouChanged   the props.iou of this commit; iouChanged says the  *)
(*                object is a new one (its fields may be equal)            *)
(*   nOffline, nRP      the other props of this commit                     *)
(*   sPrev, sCur, sAmount, sParts   the state the handler left             *)
(*   op, arg      what caused the commit                                   *)
(***************************************************************************)
Commit(isMount, nIou, iouChanged, nOffline, nRP, sPrev, sCur, sAmount, sParts, op, arg) ==
    LET \* useMemo(..., [reportParticipants.length])
        nSteps == StepsMemo(nRP, sParts)
        \* useMemo(..., [previousStepIndex, currentStepIndex])
        dir1 == IF sPrev # previousStepIndex \/ sCur # currentStepIndex
                THEN ComputeDirection(nSteps, sPrev, sCur)
                ELSE direction
        \* useEffect(..., [props.iou])
        completion == IF isMount \/ iouChanged
                      THEN TransactionCompletionEffect(prevCreatingIOUTransactionStatusRef, nIou)
                      ELSE "none"
        \* useEffect(..., [props.network.isOffline])
        refresh == IF isMount \/ nOffline # isOffline
                   THEN ConnectivityEffect(prevNetworkStatusRef, nOffline)
                   ELSE FALSE
        \* useEffect(...) without dependencies
        refs == BookkeepingEffect(nOffline, nIou)
        \* setCurrentStepIndex(0) schedules one more commit with the same props:
        \* only the direction cell can change in it
        fPrev == IF completion = "reset" THEN ErrorReset(sPrev, sCur)[1] ELSE sPrev
        fCur == IF completion = "reset" THEN ErrorReset(sPrev, sCur)[2] ELSE sCur
        dir2 == IF fPrev # sPrev \/ fCur # sCur
                THEN ComputeDirection(nSteps, fPrev, fCur)
                ELSE dir1
        fell == iou.creatingIOUTransaction /\ ~nIou.creatingIOUTransaction
    IN  /\ mounted' = TRUE
        /\ iou' = nIou
        /\ isOffline' = nOffline
        /\ reportParticipants' = nRP
        /\ prevCreatingIOUTransactionStatusRef' = refs.creating
        /\ prevNetworkStatusRef' = refs.network
        /\ previousStepIndex' = fPrev
        /\ currentStepIndex' = fCur
        /\ participants' = sParts
        /\ amount' = sAmount
        /\ steps' = nSteps
        /\ direction' = dir2
        /\ UNCHANGED <<hasMultipleParticipants, reportID, comment>>
        /\ fallingEdges' = IF fell THEN fallingEdges + 1 ELSE fallingEdges
        /\ completionActions' = IF completion # "none" THEN completionActions + 1
                                ELSE completionActions
        /\ last' = [op |-> op, arg |-> arg,
                    previousStepIndex |-> previousStepIndex,
                    currentStepIndex |-> currentStepIndex,
                    amount |-> amount,
                    participants |-> participants,
                    creating |-> iou.creatingIOUTransaction,
                    offline |-> isOffline,
                    completion |-> completion,
                    refresh |-> refresh,
                    submit |-> NoSubmit]

\* a commit caused by a handler: the props are those of the last commit
HandlerCommit(sPrev, sCur, sAmount, sParts, op, arg) ==
    Commit(FALSE, iou, FALSE, isOffline, reportParticipants,
           sPrev, sCur, sAmount, sParts, op, arg)

-----------------------------------------------------------------------------
(* Initial state: the first render has run (hooks initialised from the     *)
(* props), its effects have not.  The modal is opened with the default     *)
(* props for what only a submission reads (single participant mode, no     *)
(* report id in the route) and a draft whose comment is the empty string;  *)
(* SubmitInit below draws these from all their values.                     *)

Init ==
    /\ mounted = FALSE
    /\ iou \in IouValues
    /\ isOffline \in BOOLEAN
    /\ reportParticipants \in ReportParticipantLists
    /\ prevCreatingIOUTransactionStatusRef = iou.creatingIOUTransaction
    /\ prevNetworkStatusRef = isOffline
    /\ previousStepIndex = 0
    /\ currentStepIndex = 0
    /\ participants = reportParticipants
    /\ amount = <<>>
    /\ steps = ComputeSteps(reportParticipants)
    /\ direction = ComputeDirection(steps, 0, 0)
    /\ hasMultipleParticipants = FALSE
    /\ reportID = <<>>
    /\ comment = [defined |-> TRUE, text |-> <<>>]
    /\ fallingEdges = 0
    /\ completionActions = 0
    /\ last = [op |-> "init", arg |-> 0,
               previousStepIndex |-> 0, currentStepIndex |-> 0,
               amount |-> <<>>, participants |-> reportParticipants,
               creating |-> iou.creatingIOUTransaction, offline |-> isOffline,
               completion |-> "none", refresh |-> FALSE, submit |-> NoSubmit]

-----------------------------------------------------------------------------
(* Actions *)

\* the effects of the first commit
Mount ==
    /\ ~mounted
    /\ Commit(TRUE, iou, FALSE, isOffline, reportParticipants,
              previousStepIndex, currentStepIndex, amount, participants, "mount", 0)

\* a commit caused from outside: the store replaced the draft record, the
\* network status or the report changed, or the parent rendered again
Render ==
    /\ mounted
    /\ \E nIou \in IouValues, iouChanged \in BOOLEAN, nOffline \in BOOLEAN,
          nRP \in ReportParticipantLists :
          /\ ~iouChanged => nIou = iou
          /\ (iou.creatingIOUTransaction /\ ~nIou.creatingIOUTransaction)
                => fallingEdges < MaxEdges
          /\ Commit(FALSE, nIou, iouChanged, nOffline, nRP,
                    previousStepIndex, currentStepIndex, amount, participants,
                    "render", 0)

\* navigateToStep(stepIndex), handed to the confirm page (line 436)
NavigateToStep ==
    /\ mounted
    /\ \E stepIndex \in StepArgs :
          LET r == navigateToStep(steps, previousStepIndex, currentStepIndex, stepIndex)
          IN  HandlerCommit(r[1], r[2], amount, participants, "navigateToStep", stepIndex)

\* navigateToPreviousStep(), the header's back button (line 362)
NavigateToPreviousStep ==
    /\ mounted
    /\ LET r == navigateToPreviousStep(previousStepIndex, currentStepIndex)
       IN  HandlerCommit(r[1], r[2], amount, participants, "navigateToPreviousStep", 0)

\* navigateToNextStep(), the participants page's onStepComplete (line 402)
NavigateToNextStep ==
    /\ mounted
    /\ LET r == navigateToNextStep(steps, previousStepIndex, currentStepIndex)
       IN  HandlerCommit(r[1], r[2], amount, participants, "navigateToNextStep", 0)

\* the amount page's onStepComplete (lines 379-382)
AmountStepComplete ==
    /\ mounted
    /\ CurrentStep(steps, currentStepIndex) = Steps.IOUAmount
    /\ \E value \in AmountInputs :
          LET r == navigateToNextStep(steps, previousStepIndex, currentStepIndex)
          IN  HandlerCommit(r[1], r[2], value, participants, "amountStepComplete", 0)

\* the participants page's onAddParticipants (line 401)
AddParticipants ==
    /\ mounted
    /\ CurrentStep(steps, currentStepIndex) = Steps.IOUParticipants
    /\ \E selectedParticipants \in ParticipantSelections :
          HandlerCommit(previousStepIndex, currentStepIndex, amount,
                        selectedParticipants, "addParticipants", 0)

\* a submission sets no state, so no commit follows it: everything but the
\* record of the last operation stays as it is
Submitted(op, inputs, result) ==
    /\ last' = [op |-> op, arg |-> 0,
                previousStepIndex |-> previousStepIndex,
                currentStepIndex |-> currentStepIndex,
                amount |-> amount,
                participants |-> participants,
                creating |-> iou.creatingIOUTransaction,
                offline |-> isOffline,
                completion |-> "none",
                refresh |-> FALSE,
                submit |-> [inputs EXCEPT !.calls = result.calls,
                                          !.thrown = result.thrown]]
    /\ UNCHANGED <<mounted, iou, isOffline, reportParticipants,
                   prevCreatingIOUTransactionStatusRef, prevNetworkStatusRef,
                   previousStepIndex, currentStepIndex, participants, amount,
                   steps, direction, hasMultipleParticipants, reportID, comment,
                   fallingEdges, completionActions>>

\* the confirm page's onConfirm (lines 415-419)
Confirm ==
    /\ mounted
    /\ CurrentStep(steps, currentStepIndex) = Steps.IOUConfirm
    /\ \E selectedParticipants \in SelectedParticipantLists :
          Submitted("createTransaction",
                    [NoSubmit EXCEPT !.selectedParticipants = selectedParticipants],
                    createTransaction(selectedParticipants))

\* the confirm page's onSendMoney (lines 420-424)
SendMoney ==
    /\ mounted
    /\ CurrentStep(steps, currentStepIndex) = Steps.IOUConfirm
    /\ \E paymentMethodType \in PaymentMethodTypes :
          Submitted("sendMoney",
                    [NoSubmit EXCEPT !.paymentMethodType = paymentMethodType],
                    sendMoney(paymentMethodType))

Next ==
    \/ Mount
    \/ Render
    \/ NavigateToStep
    \/ NavigateToPreviousStep
    \/ NavigateToNextStep
    \/ AmountStepComplete
    \/ AddParticipants
    \/ Confirm
    \/ SendMoney

Spec == Init /\ [][Next]_vars

-----------------------------------------------------------------------------
(* The submission callbacks on their own.  They read the amount and        *)
(* participants cells, the route and the draft and write no cell, so they   *)
(* are explored from every state in which the confirm page is shown, with  *)
(* the route and the draft drawn from all their values, and the wizard      *)
(* left where it is.                                                       *)

\* the wizard on its Confirm step, reached by going forward step by step
OnConfirmStep ==
    /\ mounted = TRUE
    /\ isOffline = FALSE
    /\ reportParticipants \in ReportParticipantLists
    /\ prevCreatingIOUTransactionStatusRef = iou.creatingIOUTransaction
    /\ prevNetworkStatusRef = isOffline
    /\ steps = ComputeSteps(reportParticipants)
    /\ currentStepIndex = Len(steps) - 1
    /\ previousStepIndex = currentStepIndex - 1
    /\ direction = ComputeDirection(steps, previousStepIndex, currentStepIndex)
    /\ fallingEdges = 0
    /\ completionActions = 0
    /\ last = [op |-> "init", arg |-> 0,
               previousStepIndex |-> previousStepIndex,
               currentStepIndex |-> currentStepIndex,
               amount |-> amount, participants |-> participants,
               creating |-> iou.creatingIOUTransaction, offline |-> isOffline,
               completion |-> "none", refresh |-> FALSE, submit |-> NoSubmit]

SubmitInit ==
    /\ iou \in IouValues
    /\ amount \in {<<>>} \cup AmountInputs
    /\ hasMultipleParticipants \in BOOLEAN
    /\ reportID \in ReportIDs
    /\ comment \in Comments
    /\ \E rp \in ReportParticipantLists :
          /\ reportParticipants = rp
          /\ participants \in (IF rp = <<>> THEN {<<>>} \cup ParticipantSelections
                                ELSE {rp})
    /\ OnConfirmStep

SubmitNext ==
    \/ Confirm
    \/ SendMoney

SubmitSpec == SubmitInit /\ [][SubmitNext]_vars

\* the numerals of the amounts up to MaxAmountWhole.99..9 that have at most
\* MaxDecimals decimals
MaxAmountWhole == 1

MaxDecimals == 3

RECURSIVE WholeDigits(_)
WholeDigits(n) ==
    IF n < 10 THEN <<Digits[n + 1]>>
    ELSE Append(WholeDigits(n \div 10), Digits[(n % 10) + 1])

RECURSIVE FixedDigits(_, _)
FixedDigits(n, k) ==
    IF k = 0 THEN <<>>
    ELSE Append(FixedDigits(n \div 10, k - 1), Digits[(n % 10) + 1])

DecimalAmounts ==
    { WholeDigits(w) : w \in 0..MaxAmountWhole }
    \cup UNION { { WholeDigits(w) \o <<".">> \o FixedDigits(f, k) :
                     w \in 0..MaxAmountWhole, f \in 0..(Pow(10, k) - 1) } :
                 k \in 1..MaxDecimals }

\* a single request or payment to one participant, with a comment in the draft
RoundingInit ==
    /\ iou = [creatingIOUTransaction |-> FALSE, error |-> FALSE]
    /\ amount \in DecimalAmounts
    /\ hasMultipleParticipants = FALSE
    /\ reportID = <<>>
    /\ comment = [defined |-> TRUE, text |-> <<>>]
    /\ reportParticipants = <<"p1">>
    /\ participants = reportParticipants
    /\ OnConfirmStep

RoundingSpec == RoundingInit /\ [][SubmitNext]_vars

-----------------------------------------------------------------------------
(* Vocabulary of the properties *)

\* index of the Confirm step in the step sequence in effect
ConfirmIndex == IndexOf(steps, Steps.IOUConfirm)

\* index of the Amount step in the step sequence in effect
AmountIndex == IndexOf(steps, Steps.IOUAmount)

\* the last operation was a call of navigateToNextStep()
LastWasNavigateToNext == last.op \in {"navigateToNextStep", "amountStepComplete"}

\* the in-flight flag was set at the previous commit and is clear at this one
FallingEdge == last.creating /\ ~iou.creatingIOUTransaction

-----------------------------------------------------------------------------
(* C1: in every state after initialisation the current step index lies in  *)
(* 0 .. length(steps) - 1, so an active step exists.  As stated in the     *)
(* specification; navigateToStep(length(steps)) breaks it.                 *)
C1_StepIndexInRange ==
    0 <= currentStepIndex /\ currentStepIndex < Len(steps)

(* C2: the transaction-completion effect acts (reset or dismiss) in        *)
(* exactly those commits in which the in-flight flag fell since the        *)
(* previous commit: never on the mount commit, never while the flag rises  *)
(* or holds, and the number of its actions equals the number of falling    *)
(* edges whatever commits are interleaved.                                 *)
C2_CompletionOncePerFallingEdge ==
    /\ (last.completion # "none") <=> FallingEdge
    /\ last.op = "mount" => last.completion = "none"
    /\ completionActions = fallingEdges

C2_Witness ==
    /\ fallingEdges = MaxEdges
    /\ completionActions = MaxEdges
    /\ last.op = "render"
    /\ last.completion = "none"
    /\ last.creating /\ iou.creatingIOUTransaction

(* C3: on a falling edge of the in-flight flag exactly one outcome         *)
(* happens: with the error flag set the current step index becomes 0 (the  *)
(* Amount step) and no dismissal is requested; otherwise dismissal is      *)
(* requested and the current step index keeps its value.                   *)
C3_SettleOutcome ==
    FallingEdge =>
        IF iou.error
        THEN /\ last.completion = "reset"
             /\ currentStepIndex = 0
             /\ CurrentStep(steps, currentStepIndex) = Steps.IOUAmount
        ELSE /\ last.completion = "dismiss"
             /\ currentStepIndex = last.currentStepIndex

C3_Witness ==
    /\ FallingEdge
    /\ iou.error
    /\ last.currentStepIndex = ConfirmIndex
    /\ currentStepIndex = 0

(* C4: with at least one report participant the step sequence is exactly   *)
(* <<Amount, Confirm>>, with none it is <<Amount, Participants, Confirm>>; *)
(* Amount is first and Confirm last.                                       *)
C4_StepSequence ==
    /\ Len(reportParticipants) > 0
          => steps = <<Steps.IOUAmount, Steps.IOUConfirm>>
    /\ Len(reportParticipants) = 0
          => steps = <<Steps.IOUAmount, Steps.IOUParticipants, Steps.IOUConfirm>>
    /\ steps[1] = Steps.IOUAmount
    /\ steps[Len(steps)] = Steps.IOUConfirm

\* the report had no participants at mount and has some now
C4_Witness ==
    /\ mounted
    /\ participants = <<>>
    /\ Len(reportParticipants) > 0
    /\ steps = <<Steps.IOUAmount, Steps.IOUConfirm>>

(* C5: navigateToStep(index) leaves previousStepIndex and currentStepIndex *)
(* unchanged for every index outside 0 .. length(steps) - 1 (index =       *)
(* length(steps) included) and for index = currentStepIndex.  As stated in *)
(* the specification; the code accepts index = length(steps).              *)
C5_OutOfRangeIgnored ==
    (/\ last.op = "navigateToStep"
     /\ \/ last.arg < 0
        \/ last.arg >= Len(steps)
        \/ last.arg = last.currentStepIndex)
        => /\ previousStepIndex = last.previousStepIndex
           /\ currentStepIndex = last.currentStepIndex

(* C6: navigateToStep(i) changes nothing when i < 0, i > length(steps) or  *)
(* i = currentStepIndex; for every other i it sets previousStepIndex to    *)
(* the old current index and currentStepIndex to i, and keeps amount and   *)
(* participants.                                                           *)
C6_NavigateToStep ==
    last.op = "navigateToStep" =>
        /\ amount = last.amount
        /\ participants = last.participants
        /\ IF \/ last.arg < 0
              \/ last.arg > Len(steps)
              \/ last.arg = last.currentStepIndex
           THEN /\ previousStepIndex = last.previousStepIndex
                /\ currentStepIndex = last.currentStepIndex
           ELSE /\ previousStepIndex = last.currentStepIndex
                /\ currentStepIndex = last.arg

\* the boundary index length(steps) was asked for and taken
C6_Witness ==
    /\ last.op = "navigateToStep"
    /\ last.arg = Len(steps)
    /\ last.currentStepIndex # last.arg
    /\ currentStepIndex = last.arg
    /\ previousStepIndex = last.currentStepIndex
    /\ amount # <<>>

(* C7: navigateToNextStep() called with previousStepIndex equal to the     *)
(* Confirm index leaves currentStepIndex at the Confirm index, whatever it *)
(* was before.  As stated in the specification; it fails for a current     *)
(* index beyond the last one.                                              *)
C7_NextReturnsToConfirm ==
    (LastWasNavigateToNext /\ last.previousStepIndex = ConfirmIndex)
        => currentStepIndex = ConfirmIndex

(* C8: navigateToNextStep() at the last index changes neither index; below *)
(* the last index, with previousStepIndex different from the Confirm       *)
(* index, it sets previousStepIndex to the old current index and adds one  *)
(* to currentStepIndex.                                                    *)
C8_NavigateToNext ==
    LastWasNavigateToNext =>
        /\ last.currentStepIndex = Len(steps) - 1
              => /\ previousStepIndex = last.previousStepIndex
                 /\ currentStepIndex = last.currentStepIndex
        /\ (/\ last.currentStepIndex < Len(steps) - 1
            /\ last.previousStepIndex # ConfirmIndex)
              => /\ previousStepIndex = last.currentStepIndex
                 /\ currentStepIndex = last.currentStepIndex + 1

\* called on the Confirm step, reached the ordinary way
C8_Witness ==
    /\ last.op = "navigateToNextStep"
    /\ last.currentStepIndex = Len(steps) - 1
    /\ last.previousStepIndex = Len(steps) - 2
    /\ currentStepIndex = Len(steps) - 1

(* C9: the direction shown is "in" (forward) for Confirm -> Amount, "out"  *)
(* (backward) for Amount -> Confirm, none for equal indices, and otherwise *)
(* "in" for previous < current and "out" for previous > current, the       *)
(* Amount and Confirm indices being those of the step sequence in effect.  *)
(* As stated in the specification; the memoised direction is not           *)
(* recomputed when the step sequence changes.                              *)
C9_DirectionShown ==
    direction =
        IF previousStepIndex = ConfirmIndex /\ currentStepIndex = AmountIndex THEN "in"
        ELSE IF previousStepIndex = AmountIndex /\ currentStepIndex = ConfirmIndex THEN "out"
        ELSE IF previousStepIndex = currentStepIndex THEN "null"
        ELSE IF previousStepIndex < currentStepIndex THEN "in"
        ELSE "out"

(* C10: the connectivity effect calls the default-data refresh in exactly  *)
(* the commits in which the network was offline at the previous commit and *)
(* is online now; not while it stays offline or online, not when it goes   *)
(* offline, not on the mount commit.  (last.refresh records the call made  *)
(* by this effect only, not the mount effect's own call.)                  *)
C10_RefreshOnReconnect ==
    /\ last.refresh <=> (last.offline /\ ~isOffline)
    /\ last.op = "mount" => ~last.refresh

C10_Witness ==
    /\ last.op = "render"
    /\ last.offline
    /\ ~isOffline
    /\ last.refresh

-----------------------------------------------------------------------------
(* Vocabulary of the properties of the submissions *)

\* the last operation was a submission
LastWasSubmission == last.op \in {"createTransaction", "sendMoney"}

\* the payment method types sendMoney knows
RecognizedTypes == {PaymentType.ELSEWHERE, PaymentType.PAYPAL_ME, PaymentType.EXPENSIFY}

\* the action each recognized type stands for
RailOf(paymentMethodType) ==
    IF paymentMethodType = PaymentType.ELSEWHERE THEN "sendMoneyElsewhere"
    ELSE IF paymentMethodType = PaymentType.PAYPAL_ME THEN "sendMoneyViaPaypal"
    ELSE "sendMoneyWithWallet"

\* the decimal numeral chars times 100, rounded to the nearest integer with
\* halves up, in exact integer arithmetic
HalfUpMinorUnits(chars) ==
    LET dot == IF \E i \in 1..Len(chars) : chars[i] = "."
               THEN CHOOSE i \in 1..Len(chars) : chars[i] = "."
               ELSE Len(chars) + 1
        digits == SelectSeq(chars, IsDigit)
        value[i \in 0..Len(digits)] ==
            IF i = 0 THEN 0 ELSE 10 * value[i - 1] + DigitValue(digits[i])
        d == Pow(10, IF dot > Len(chars) THEN 0 ELSE Len(chars) - dot)
    IN  (200 * value[Len(digits)] + d) \div (2 * d)

\* navigateToNextStep() called k times in a row
RECURSIVE NextTimes(_, _, _, _)
NextTimes(st, prev, cur, k) ==
    IF k = 0 THEN <<prev, cur>>
    ELSE LET r == NextTimes(st, prev, cur, k - 1)
         IN  navigateToNextStep(st, r[1], r[2])

-----------------------------------------------------------------------------
(* C11: every call of createTransaction dispatches exactly one action:     *)
(* splitBill when multi-participant mode is on and the route's report id   *)
(* is a numeric string, otherwise splitBillAndOpenReport when the mode is  *)
(* on, otherwise requestMoney (so never a split action in single mode).    *)
(* As stated in the specification; a call that throws (C14) dispatches     *)
(* nothing.                                                                *)
C11_CreateTransactionDispatch ==
    last.op = "createTransaction" =>
        /\ Len(last.submit.calls) = 1
        /\ last.submit.calls[1].action =
              IF hasMultipleParticipants /\ RegexNumberTest(reportID) THEN "splitBill"
              ELSE IF hasMultipleParticipants THEN "splitBillAndOpenReport"
              ELSE "requestMoney"

(* C12: sendMoney(paymentMethodType) dispatches exactly one action, the    *)
(* rail of the type, for participants[0], when the type is one of the      *)
(* three recognized ones, and no action for any other type.  As stated in  *)
(* the specification; a call that throws (C14) dispatches nothing.         *)
C12_SendMoneyDispatch ==
    last.op = "sendMoney" =>
        IF last.submit.paymentMethodType \in RecognizedTypes
        THEN /\ Len(last.submit.calls) = 1
             /\ last.submit.calls[1].action = RailOf(last.submit.paymentMethodType)
             /\ last.submit.calls[1].participant = First(participants)
        ELSE last.submit.calls = <<>>

(* C13: the amount handed to the payment rails by sendMoney and to         *)
(* requestMoney by createTransaction is the draft amount times 100 rounded *)
(* to the nearest integer, halves up, for every amount with at most        *)
(* MaxDecimals decimals up to MaxAmountWhole.999; hence the same for both. *)
(* As stated in the specification; the product is formed in binary         *)
(* floating point before it is rounded.                                    *)
C13_MinorUnitsHalfUp ==
    (LastWasSubmission /\ last.submit.calls # <<>>)
        => last.submit.calls[1].amount = HalfUpMinorUnits(amount)

(* C14: no call of sendMoney or createTransaction ends in a thrown fault,  *)
(* whatever the wizard state, the participants and the draft record (one   *)
(* without a comment field included).  As stated in the specification;     *)
(* both read props.iou.comment.trim().                                     *)
C14_NeverThrows ==
    ~last.submit.thrown

(* C15: a step changes the step sequence only if it changes the number of  *)
(* report participants, and only a render caused from outside does: no     *)
(* handler (navigation, amount, selected participants, confirm, send) and  *)
(* no effect changes it.                                                   *)
C15_StepsChangeOnlyWithCount ==
    [][ /\ steps' # steps => Len(reportParticipants') # Len(reportParticipants)
        /\ last'.op # "render" => steps' = steps ]_vars

\* the selection was replaced by two logins on a report without participants
C15_Witness ==
    /\ last.op = "addParticipants"
    /\ Len(last.participants) = 0
    /\ Len(participants) = 2
    /\ Len(reportParticipants) = 0
    /\ steps = <<Steps.IOUAmount, Steps.IOUParticipants, Steps.IOUConfirm>>

(* C16: navigateToPreviousStep() changes nothing when currentStepIndex is  *)
(* 0; otherwise it sets previousStepIndex to the old current index and     *)
(* takes one from currentStepIndex.  The back button is shown exactly when *)
(* currentStepIndex > 0.                                                   *)
C16_NavigateToPrevious ==
    /\ last.op = "navigateToPreviousStep" =>
          /\ amount = last.amount
          /\ participants = last.participants
          /\ IF last.currentStepIndex = 0
             THEN /\ previousStepIndex = last.previousStepIndex
                  /\ currentStepIndex = last.currentStepIndex
             ELSE /\ previousStepIndex = last.currentStepIndex
                  /\ currentStepIndex = last.currentStepIndex - 1
    /\ shouldShowBackButton(currentStepIndex) <=> currentStepIndex > 0

\* back from the Confirm step of the three-step sequence, reached from Amount
C16_Witness ==
    /\ last.op = "navigateToPreviousStep"
    /\ last.currentStepIndex = 2
    /\ last.previousStepIndex = 0
    /\ currentStepIndex = 1
    /\ previousStepIndex = 2
    /\ shouldShowBackButton(currentStepIndex)

(* C17: after every commit the two refs equal the in-flight and offline    *)
(* flags of that commit, and the completion and connectivity effects act   *)
(* on the flags of the previous commit: each acts exactly when its flag    *)
(* fell since the previous commit, which an effect comparing against a     *)
(* snapshot of the same commit never could.                                *)
C17_RefsHoldPreviousRender ==
    /\ prevCreatingIOUTransactionStatusRef = iou.creatingIOUTransaction
    /\ prevNetworkStatusRef = isOffline
    /\ last.completion # "none" => (last.creating /\ ~iou.creatingIOUTransaction)
    /\ last.refresh => (last.offline /\ ~isOffline)
    /\ (last.op = "render" /\ last.creating /\ ~iou.creatingIOUTransaction)
          => last.completion # "none"
    /\ (last.op = "render" /\ last.offline /\ ~isOffline) => last.refresh

\* both flags fell in one commit and both effects acted
C17_Witness ==
    /\ last.op = "render"
    /\ last.creating /\ ~iou.creatingIOUTransaction
    /\ last.offline /\ ~isOffline
    /\ last.completion = "dismiss"
    /\ last.refresh
    /\ prevCreatingIOUTransactionStatusRef = FALSE
    /\ prevNetworkStatusRef = FALSE

(* C18: the reset on error sets currentStepIndex to 0 and changes nothing  *)
(* else: previousStepIndex, amount and participants keep the values they   *)
(* had before.                                                             *)
C18_ResetKeepsEntries ==
    last.completion = "reset" =>
        /\ currentStepIndex = 0
        /\ previousStepIndex = last.previousStepIndex
        /\ amount = last.amount
        /\ participants = last.participants

\* reset from the Confirm step of the three-step sequence, entries made
C18_Witness ==
    /\ last.completion = "reset"
    /\ last.currentStepIndex = 2
    /\ last.previousStepIndex = 1
    /\ previousStepIndex = 1
    /\ currentStepIndex = 0
    /\ amount # <<>>
    /\ participants # <<>>

(* C19: from every state with 0 <= currentStepIndex < length(steps),       *)
(* navigateToNextStep() called again and again never lowers the current    *)
(* index, has it at the Confirm index (the last one) after length - 1      *)
(* calls at the latest, and changes nothing once it is there.              *)
C19_NextReachesConfirm ==
    (0 <= currentStepIndex /\ currentStepIndex < Len(steps)) =>
        LET after(k) == NextTimes(steps, previousStepIndex, currentStepIndex, k)
        IN  /\ ConfirmIndex = Len(steps) - 1
            /\ \A k \in 0..Len(steps) : after(k + 1)[2] >= after(k)[2]
            /\ after(Len(steps) - 1)[2] = ConfirmIndex
            /\ \A k \in 0..Len(steps) :
                  after(k)[2] = ConfirmIndex => after(k + 1) = after(k)

\* one call took the wizard from Amount to Confirm over the Participants step
C19_Witness ==
    /\ LastWasNavigateToNext
    /\ Len(steps) = 3
    /\ last.previousStepIndex = ConfirmIndex
    /\ last.currentStepIndex = 0
    /\ currentStepIndex = ConfirmIndex
    /\ NextTimes(steps, last.previousStepIndex, last.currentStepIndex, 1)
          = <<previousStepIndex, currentStepIndex>>

(* C20: every confirm event, and every send event of a recognized type,    *)
(* dispatches one action whether or not a creation is in flight, so k      *)
(* events dispatch k actions; a submission changes no cell of the wizard   *)
(* and asks for no dismissal.  As stated in the specification; an event    *)
(* whose call throws (C14) dispatches nothing.                             *)
C20_SubmitWhateverInFlight ==
    LastWasSubmission =>
        /\ (last.op = "createTransaction"
               \/ last.submit.paymentMethodType \in RecognizedTypes)
              => Len(last.submit.calls) = 1
        /\ previousStepIndex = last.previousStepIndex
        /\ currentStepIndex = last.currentStepIndex
        /\ amount = last.amount
        /\ participants = last.participants
        /\ last.completion = "none"

====
